---------------------------- MODULE Spec2Model ----------------------------
(***************************************************************************)
(* Model of github.com/mholt/diskspace: the Maintainer loop                *)
(* (src/diskspace.go) and the usage prober diskUsage (src/statfs.go).      *)
(*                                                                         *)
(* One Maintainer instance m is shared by NumProcs goroutines.  In Spec    *)
(* one of them has called m.Maintain(ctx), in SpecConc all of them have,   *)
(* with the same context.  The fields of m and its mutex are global        *)
(* variables; every goroutine has a program counter, its own ticker and    *)
(* the locals of the maintainDiskUsage call it is executing, which are     *)
(* kept until Maintain has dealt with the call's result.                   *)
(*                                                                         *)
(* Units.  Threshold (a float64) is a rational <<num, den>> with den > 0;  *)
(* the quotient of two megabyte counts is compared with it by cross        *)
(* multiplication, NaN and +Inf being handled as IEEE-754 does (for the    *)
(* modelled values the float64 quotient compares as the exact one).        *)
(* CheckInterval (a time.Duration) is counted in minutes.  uint64          *)
(* arithmetic is arithmetic modulo Word.                                   *)
(***************************************************************************)
EXTENDS Integers, FiniteSets, Sequences, TLC

\* Number of goroutines running Maintain on the one Maintainer.
NumProcs == 2

Procs == 1..NumProcs

\* Modulus of the unsigned integer type of diskStatus's fields.  The code
\* uses uint64; the model keeps the wrap-around but with a 30 bit word,
\* so that the products of the modelled inputs stay within TLC's 32 bit
\* integers.
Word == 1073741824

\* Disk size constants (src/diskspace.go, 141-151).
KB == 1024

MB == 1048576

\* Defaults (src/diskspace.go, 134-138).  defaultThreshold is 0.9.
defaultVolume == "/"

defaultThreshold == <<9, 10>>

defaultCheckInterval == 10

(***************************************************************************)
(* Inputs.                                                                 *)
(***************************************************************************)

\* Values of m.Volume before Maintain is called.
Volumes == {"", "/", "/data"}

\* Values of m.Threshold before Maintain is called: -0.1, 0, 0.5, 0.9, 1, 1.5.
Thresholds == {<<-1, 10>>, <<0, 1>>, <<1, 2>>, <<9, 10>>, <<1, 1>>, <<3, 2>>}

\* Values of m.CheckInterval before Maintain is called, in minutes.
CheckIntervals == {-1, 0, 5}

\* m.Clean is either nil or a function.
CleanFuncs == {"nil", "func"}

\* runtime.GOOS of the build.
Platforms == {"darwin", "linux"}

\* What the Statfs system call can answer: an error, or block statistics.
\* The statistics cover a 100 MB volume at 95 %, 90 % and 80 % (with free
\* and available blocks differing), a volume of 1.5 MB in half-megabyte
\* blocks, a volume smaller than one megabyte and an empty answer.
StatfsErr == [errno |-> "ENOENT", Blocks |-> 0, Bsize |-> 0, Bavail |-> 0, Bfree |-> 0]

StatfsOk ==
    { [errno |-> "ok", Blocks |-> 100, Bsize |-> MB, Bavail |-> 5, Bfree |-> 5],
      [errno |-> "ok", Blocks |-> 100, Bsize |-> MB, Bavail |-> 5, Bfree |-> 20],
      [errno |-> "ok", Blocks |-> 100, Bsize |-> MB, Bavail |-> 10, Bfree |-> 10],
      [errno |-> "ok", Blocks |-> 100, Bsize |-> MB, Bavail |-> 20, Bfree |-> 20],
      [errno |-> "ok", Blocks |-> 3, Bsize |-> 512 * KB, Bavail |-> 1, Bfree |-> 1],
      [errno |-> "ok", Blocks |-> 1, Bsize |-> 512 * KB, Bavail |-> 0, Bfree |-> 0],
      [errno |-> "ok", Blocks |-> 0, Bsize |-> 4 * KB, Bavail |-> 0, Bfree |-> 0] }

StatfsOutcomes == {StatfsErr} \cup StatfsOk

\* What Statfs(path) can answer.  The root volume is the 100 MB volume,
\* 95 % or 80 % full with no reserved blocks; any other path can be any
\* of the volumes above.
StatfsAt(path) ==
    IF path = "/"
    THEN {StatfsErr} \cup
         {fs \in StatfsOk : fs.Blocks = 100 /\ fs.Bavail = fs.Bfree
                                            /\ fs.Bfree \in {5, 20}}
    ELSE StatfsOutcomes

\* Most ticker periods counted during one call of maintainDiskUsage.
MaxTicks == 2

\* Largest block count of the answers diskUsage is applied to on its own.
MaxBlocks == 4

\* The block sizes of those answers.
BlockSizes == {512, 4 * KB}

\* Every answer of Statfs with counts up to MaxBlocks: the three counts are
\* unsigned fields the file system fills in one by one, and nothing in
\* Statfs_t orders them.
StatfsInputs ==
    {StatfsErr} \cup
    [errno : {"ok"}, Blocks : 0..MaxBlocks, Bsize : BlockSizes,
     Bavail : 0..MaxBlocks, Bfree : 0..MaxBlocks]

\* What a call of m.Clean can return: nil or an error.
CleanResults == {"nil", "EIO"}

(***************************************************************************)
(* The usage prober (src/statfs.go).                                       *)
(***************************************************************************)

\* diskStatus{} : the zero value.
zeroStatus == [all |-> 0, available |-> 0, free |-> 0, used |-> 0]

\* diskUsage without the platform branch.
diskUsageNoPlatform(fs, os) ==
    IF fs.errno # "ok"
    THEN [du |-> zeroStatus, err |-> fs.errno]
    ELSE LET all == (fs.Blocks * fs.Bsize) % Word
             available == (fs.Bavail * fs.Bsize) % Word
             free == (fs.Bfree * fs.Bsize) % Word
         IN  [du |-> [all |-> all, available |-> available,
                      free |-> free, used |-> (all - free) % Word],
              err |-> "nil"]

\* diskUsage(path): the pair (diskStatus, error) computed from the answer
\* fs of syscall.Statfs on a build for platform os.
diskUsage(fs, os) ==
    IF fs.errno # "ok"
    THEN [du |-> zeroStatus, err |-> fs.errno]
    ELSE LET all == (fs.Blocks * fs.Bsize) % Word
             available == (fs.Bavail * fs.Bsize) % Word
             free == (fs.Bfree * fs.Bsize) % Word
             used == IF os = "darwin"
                     THEN (all - available) % Word
                     ELSE (all - free) % Word
         IN  [du |-> [all |-> all, available |-> available,
                      free |-> free, used |-> used],
              err |-> "nil"]

(***************************************************************************)
(* State.                                                                  *)
(***************************************************************************)
VARIABLES
    Volume,         \* m.Volume
    CheckInterval,  \* m.CheckInterval, in minutes
    Threshold,      \* m.Threshold, <<num, den>>
    Clean,          \* m.Clean: "nil" or "func"
    mu,             \* m.mu: TRUE when locked
    goos,           \* runtime.GOOS
    ctxDone,        \* ctx.Done() is closed
    pc,             \* pc[p]: where goroutine p is in Maintain
    ticker,         \* ticker[p]: "none", "running" or "stopped"
    tickC,          \* tickC[p]: a tick is buffered in ticker.C
    totalMB,        \* locals of p's maintainDiskUsage call
    usedMB,
    newUsedMB,
    usedDiff,
    err,            \* the error p's call returns to Maintain, "nil" for none
    probed,         \* the errno of each Statfs made by p's current call
    cleanRet,       \* what each m.Clean() of p's current call returned
    nClean,         \* m.Clean calls made by p's current call
    logs,           \* log messages emitted by p's current call
    given,          \* the fields of m as its owner set them
    elapsed,        \* ticker periods that ended during p's current call
    probeFs,        \* the answer of Statfs to a diskUsage call made on its own
    probeDisk       \* what that diskUsage call returned

config == <<Volume, CheckInterval, Threshold, Clean>>

probe == <<probeFs, probeDisk>>

locals == <<totalMB, usedMB, newUsedMB, usedDiff, err, probed, cleanRet, nClean, logs>>

vars == <<Volume, CheckInterval, Threshold, Clean, mu, goos, ctxDone, pc,
          ticker, tickC, totalMB, usedMB, newUsedMB, usedDiff, err, probed,
          cleanRet, nClean, logs, given, elapsed, probeFs, probeDisk>>

\* The Maintainer as its owner constructed it, before any goroutine has
\* run a statement of Maintain.  callers are the goroutines that have
\* called m.Maintain(ctx); the others never do.
InitWith(callers) ==
    /\ given = [Volume |-> Volume, CheckInterval |-> CheckInterval,
                Threshold |-> Threshold, Clean |-> Clean]
    /\ mu = FALSE
    /\ ctxDone = FALSE
    /\ pc = [p \in Procs |-> IF p \in callers THEN "start" ELSE "absent"]
    /\ ticker = [p \in Procs |-> "none"]
    /\ tickC = [p \in Procs |-> FALSE]
    /\ totalMB = [p \in Procs |-> 0]
    /\ usedMB = [p \in Procs |-> 0]
    /\ newUsedMB = [p \in Procs |-> 0]
    /\ usedDiff = [p \in Procs |-> 0]
    /\ err = [p \in Procs |-> "nil"]
    /\ probed = [p \in Procs |-> <<>>]
    /\ cleanRet = [p \in Procs |-> <<>>]
    /\ nClean = [p \in Procs |-> 0]
    /\ logs = [p \in Procs |-> {}]
    /\ elapsed = [p \in Procs |-> 0]

\* No diskUsage call has returned yet.
NoResult == [du |-> zeroStatus, err |-> "pending"]

\* Maintain is called once, on a Maintainer with any field values.
Init ==
    /\ probeFs = StatfsErr
    /\ probeDisk = NoResult
    /\ Volume \in Volumes
    /\ CheckInterval \in CheckIntervals
    /\ Threshold \in Thresholds
    /\ Clean \in CleanFuncs
    /\ goos \in Platforms
    /\ InitWith({1})

\* Maintain is called by every goroutine, on a Maintainer{Clean: f} or a
\* Maintainer{} (the other fields have their zero values) of a linux build.
InitConc ==
    /\ probeFs = StatfsErr
    /\ probeDisk = NoResult
    /\ Volume = ""
    /\ CheckInterval = 0
    /\ Threshold = <<0, 1>>
    /\ Clean \in CleanFuncs
    /\ goos = "linux"
    /\ InitWith(Procs)

\* Nobody calls Maintain; diskUsage is about to be called on its own, and
\* Statfs will answer probeFs.
InitProbe ==
    /\ probeFs \in StatfsInputs
    /\ probeDisk = NoResult
    /\ Volume = defaultVolume
    /\ CheckInterval = defaultCheckInterval
    /\ Threshold = defaultThreshold
    /\ Clean = "func"
    /\ goos \in Platforms
    /\ InitWith({})

\* diskUsage(path) is called and returns.
DiskUsageCall ==
    /\ probeDisk = NoResult
    /\ probeDisk' = diskUsage(probeFs, goos)
    /\ UNCHANGED <<probeFs, elapsed, given, config, mu, goos, ctxDone, pc, ticker, tickC, locals>>

(***************************************************************************)
(* Maintain, up to the first call of maintainDiskUsage                     *)
(* (src/diskspace.go, 42-65).                                              *)
(***************************************************************************)

\* The range test with the bounds 0 and 1 let through.
ThresholdOutOfRangeStrict(t) == t[1] < 0 \/ t[1] > t[2]

\* m.Threshold <= 0 || m.Threshold >= 1
ThresholdOutOfRange(t) == t[1] <= 0 \/ t[1] >= t[2]

\* The values of the three fields after the default assignments.
VolumeOrDefault(v) == IF v = "" THEN defaultVolume ELSE v

ThresholdOrDefault(t) == IF ThresholdOutOfRange(t) THEN defaultThreshold ELSE t

CheckIntervalOrDefault(d) == IF d <= 0 THEN defaultCheckInterval ELSE d

\* The nil check as it would be were it made after the default
\* assignments.
PanicAfterDefaults(p) ==
    /\ pc[p] = "start"
    /\ Clean = "nil"
    /\ Volume' = VolumeOrDefault(Volume)
    /\ Threshold' = ThresholdOrDefault(Threshold)
    /\ CheckInterval' = CheckIntervalOrDefault(CheckInterval)
    /\ pc' = [pc EXCEPT ![p] = "panicked"]
    /\ UNCHANGED <<probe, elapsed, given, Clean, mu, goos, ctxDone, ticker, tickC, locals>>

\* if m.Clean == nil { panic("nil Clean function") }
PanicNilClean(p) ==
    /\ pc[p] = "start"
    /\ Clean = "nil"
    /\ pc' = [pc EXCEPT ![p] = "panicked"]
    /\ UNCHANGED <<probe, elapsed, given, config, mu, goos, ctxDone, ticker, tickC, locals>>

\* ApplyDefaults as it would be were ctx looked at before the initial call.
ApplyDefaultsCheckCtx(p) ==
    /\ pc[p] = "start"
    /\ Clean # "nil"
    /\ Volume' = VolumeOrDefault(Volume)
    /\ Threshold' = ThresholdOrDefault(Threshold)
    /\ CheckInterval' = CheckIntervalOrDefault(CheckInterval)
    /\ pc' = [pc EXCEPT ![p] = IF ctxDone THEN "done" ELSE "call"]
    /\ UNCHANGED <<probe, elapsed, given, Clean, mu, goos, ctxDone, ticker, tickC, locals>>

\* The default assignments and the "starting" log line; the goroutine is
\* then about to make the initial call of maintainDiskUsage.
ApplyDefaults(p) ==
    /\ pc[p] = "start"
    /\ Clean # "nil"
    /\ Volume' = VolumeOrDefault(Volume)
    /\ Threshold' = ThresholdOrDefault(Threshold)
    /\ CheckInterval' = CheckIntervalOrDefault(CheckInterval)
    /\ pc' = [pc EXCEPT ![p] = "call"]
    /\ UNCHANGED <<probe, elapsed, given, Clean, mu, goos, ctxDone, ticker, tickC, locals>>

(***************************************************************************)
(* maintainDiskUsage (src/diskspace.go, 89-132).  The deferred Unlock runs *)
(* as the function returns: a return and the unlock are one step, after    *)
(* which the goroutine is back in Maintain at "ret" with the call's error. *)
(***************************************************************************)

\* The threshold test with the comparison turned round.
RatioAbove(used, total, th) ==
    IF total = 0 THEN FALSE ELSE used * th[2] > th[1] * total

\* usedRatio < m.Threshold, for usedRatio = float64(used) / float64(total).
\* With total = 0 the quotient is NaN (used = 0) or +Inf (used > 0) and the
\* comparison is false.
RatioBelow(used, total, th) ==
    IF total = 0 THEN FALSE ELSE used * th[2] < th[1] * total

\* The frame of a maintainDiskUsage call of p is gone: its locals, and the
\* err of Maintain that received its result, are no more.
Forget(p) ==
    /\ totalMB' = [totalMB EXCEPT ![p] = 0]
    /\ usedMB' = [usedMB EXCEPT ![p] = 0]
    /\ newUsedMB' = [newUsedMB EXCEPT ![p] = 0]
    /\ usedDiff' = [usedDiff EXCEPT ![p] = 0]
    /\ err' = [err EXCEPT ![p] = "nil"]
    /\ probed' = [probed EXCEPT ![p] = <<>>]
    /\ cleanRet' = [cleanRet EXCEPT ![p] = <<>>]
    /\ nClean' = [nClean EXCEPT ![p] = 0]
    /\ logs' = [logs EXCEPT ![p] = {}]
    /\ elapsed' = [elapsed EXCEPT ![p] = 0]

\* usedMB - newUsedMB on uint64.
SubU(a, b) == (a - b) % Word

\* Lock as it would be were the mutex not waited for (a TryLock whose
\* result is ignored).
LockNoWait(p) ==
    /\ pc[p] = "call"
    /\ mu' = TRUE
    /\ pc' = [pc EXCEPT ![p] = "probe1"]
    /\ UNCHANGED <<probe, elapsed, given, config, goos, ctxDone, ticker, tickC, locals>>

\* m.mu.Lock(): blocks while the mutex is locked.
Lock(p) ==
    /\ pc[p] = "call"
    /\ mu = FALSE
    /\ mu' = TRUE
    /\ pc' = [pc EXCEPT ![p] = "probe1"]
    /\ UNCHANGED <<probe, elapsed, given, config, goos, ctxDone, ticker, tickC, locals>>

\* Return as it would be were the mutex unlocked by hand on the success
\* path only, not by defer.
ReturnLeak(p, e) ==
    /\ err' = [err EXCEPT ![p] = e]
    /\ mu' = IF e = "nil" THEN FALSE ELSE mu
    /\ pc' = [pc EXCEPT ![p] = "ret"]

\* return e, with the deferred m.mu.Unlock().
Return(p, e) ==
    /\ err' = [err EXCEPT ![p] = e]
    /\ mu' = FALSE
    /\ pc' = [pc EXCEPT ![p] = "ret"]

\* FirstProbe as it would be were the first probe's error dropped.
FirstProbeIgnoreError(p) ==
    /\ pc[p] = "probe1"
    /\ \E fs \in StatfsAt(Volume) :
         LET r == diskUsage(fs, goos)
             t == r.du.all \div MB
             u == r.du.used \div MB
         IN  /\ probed' = [probed EXCEPT ![p] = Append(@, fs.errno)]
             /\ totalMB' = [totalMB EXCEPT ![p] = t]
             /\ usedMB' = [usedMB EXCEPT ![p] = u]
             /\ IF RatioBelow(u, t, Threshold)
                THEN /\ err' = [err EXCEPT ![p] = "nil"]
                     /\ mu' = FALSE
                     /\ pc' = [pc EXCEPT ![p] = "ret"]
                     /\ UNCHANGED logs
                ELSE /\ logs' = [logs EXCEPT ![p] = @ \cup {"warn"}]
                     /\ pc' = [pc EXCEPT ![p] = "clean"]
                     /\ UNCHANGED <<err, mu>>
    /\ UNCHANGED <<probe, elapsed, given, config, goos, ctxDone, ticker, tickC, newUsedMB, usedDiff,
                   cleanRet, nClean>>

\* Lines 94-111: the first probe, the ratio and the threshold test.
FirstProbe(p) ==
    /\ pc[p] = "probe1"
    /\ \E fs \in StatfsAt(Volume) :
         LET r == diskUsage(fs, goos)
             t == r.du.all \div MB
             u == r.du.used \div MB
         IN  /\ probed' = [probed EXCEPT ![p] = Append(@, fs.errno)]
             /\ IF r.err # "nil"
                THEN /\ Return(p, r.err)
                     /\ UNCHANGED <<totalMB, usedMB, logs>>
                ELSE /\ totalMB' = [totalMB EXCEPT ![p] = t]
                     /\ usedMB' = [usedMB EXCEPT ![p] = u]
                     /\ IF RatioBelow(u, t, Threshold)
                        THEN /\ Return(p, "nil")
                             /\ UNCHANGED logs
                        ELSE /\ logs' = [logs EXCEPT ![p] = @ \cup {"warn"}]
                             /\ pc' = [pc EXCEPT ![p] = "clean"]
                             /\ UNCHANGED <<err, mu>>
    /\ UNCHANGED <<probe, elapsed, given, config, goos, ctxDone, ticker, tickC, newUsedMB, usedDiff,
                   cleanRet, nClean>>

\* Line 114: m.Clean() is called.
CleanCall(p) ==
    /\ pc[p] = "clean"
    /\ nClean' = [nClean EXCEPT ![p] = @ + 1]
    /\ pc' = [pc EXCEPT ![p] = "cleaning"]
    /\ UNCHANGED <<probe, elapsed, given, config, mu, goos, ctxDone, ticker, tickC, totalMB, usedMB,
                   newUsedMB, usedDiff, err, probed, cleanRet, logs>>

\* fmt.Errorf("clean: %v", e)
CleanError(e) == "clean: " \o e

\* CleanReturn as it would be were a failed Clean tried once more.
CleanReturnRetry(p) ==
    /\ pc[p] = "cleaning"
    /\ \E e \in CleanResults :
         /\ cleanRet' = [cleanRet EXCEPT ![p] = Append(@, e)]
         /\ IF e # "nil"
            THEN IF nClean[p] < 2
                 THEN /\ pc' = [pc EXCEPT ![p] = "clean"]
                      /\ UNCHANGED <<err, mu>>
                 ELSE /\ err' = [err EXCEPT ![p] = CleanError(e)]
                      /\ mu' = FALSE
                      /\ pc' = [pc EXCEPT ![p] = "ret"]
            ELSE /\ pc' = [pc EXCEPT ![p] = "probe2"]
                 /\ UNCHANGED <<err, mu>>
    /\ UNCHANGED <<probe, elapsed, given, config, goos, ctxDone, ticker, tickC, totalMB, usedMB,
                   newUsedMB, usedDiff, probed, nClean, logs>>

\* CleanReturn as it would be were Clean's error dropped.
CleanReturnIgnoreError(p) ==
    /\ pc[p] = "cleaning"
    /\ \E e \in CleanResults :
         /\ cleanRet' = [cleanRet EXCEPT ![p] = Append(@, e)]
         /\ pc' = [pc EXCEPT ![p] = "probe2"]
         /\ UNCHANGED <<err, mu>>
    /\ UNCHANGED <<probe, elapsed, given, config, goos, ctxDone, ticker, tickC, totalMB, usedMB,
                   newUsedMB, usedDiff, probed, nClean, logs>>

\* Lines 114-117: m.Clean() returns e, if it ever returns.
CleanReturn(p) ==
    /\ pc[p] = "cleaning"
    /\ \E e \in CleanResults :
         /\ cleanRet' = [cleanRet EXCEPT ![p] = Append(@, e)]
         /\ IF e # "nil"
            THEN Return(p, CleanError(e))
            ELSE /\ pc' = [pc EXCEPT ![p] = "probe2"]
                 /\ UNCHANGED <<err, mu>>
    /\ UNCHANGED <<probe, elapsed, given, config, goos, ctxDone, ticker, tickC, totalMB, usedMB,
                   newUsedMB, usedDiff, probed, nClean, logs>>

\* SecondProbe as it would be were the second probe's error dropped.
SecondProbeIgnoreError(p) ==
    /\ pc[p] = "probe2"
    /\ \E fs \in StatfsAt(Volume) :
         LET r == diskUsage(fs, goos)
             n == r.du.used \div MB
         IN  /\ probed' = [probed EXCEPT ![p] = Append(@, fs.errno)]
             /\ newUsedMB' = [newUsedMB EXCEPT ![p] = n]
             /\ usedDiff' = [usedDiff EXCEPT ![p] = SubU(usedMB[p], n)]
             /\ logs' = [logs EXCEPT ![p] = @ \cup {"cleaned"}]
             /\ err' = [err EXCEPT ![p] = "nil"]
             /\ mu' = FALSE
             /\ pc' = [pc EXCEPT ![p] = "ret"]
    /\ UNCHANGED <<probe, elapsed, given, config, goos, ctxDone, ticker, tickC, totalMB, usedMB,
                   cleanRet, nClean>>

\* Lines 119-131: the second probe and the "disk space cleaned" report.
SecondProbe(p) ==
    /\ pc[p] = "probe2"
    /\ \E fs \in StatfsAt(Volume) :
         LET r == diskUsage(fs, goos)
             n == r.du.used \div MB
         IN  /\ probed' = [probed EXCEPT ![p] = Append(@, fs.errno)]
             /\ IF r.err # "nil"
                THEN /\ Return(p, r.err)
                     /\ UNCHANGED <<newUsedMB, usedDiff, logs>>
                ELSE /\ newUsedMB' = [newUsedMB EXCEPT ![p] = n]
                     /\ usedDiff' = [usedDiff EXCEPT ![p] = SubU(usedMB[p], n)]
                     /\ logs' = [logs EXCEPT ![p] = @ \cup {"cleaned"}]
                     /\ Return(p, "nil")
    /\ UNCHANGED <<probe, elapsed, given, config, goos, ctxDone, ticker, tickC, totalMB, usedMB,
                   cleanRet, nClean>>

(***************************************************************************)
(* Maintain, after the initial call: the ticker and the select loop        *)
(* (src/diskspace.go, 66-86).                                              *)
(***************************************************************************)

\* StartTicker as it would be were the ticker's period also written back
\* as the default.
StartTickerResetInterval(p) ==
    /\ pc[p] = "ret"
    /\ ticker[p] = "none"
    /\ ticker' = [ticker EXCEPT ![p] = "running"]
    /\ pc' = [pc EXCEPT ![p] = "select"]
    /\ CheckInterval' = defaultCheckInterval
    /\ Forget(p)
    /\ UNCHANGED <<probe, given, Volume, Threshold, Clean, mu, goos, ctxDone, tickC>>

\* Lines 66-71: the initial call has returned; its error, if any, is
\* logged and the ticker is created.
StartTicker(p) ==
    /\ pc[p] = "ret"
    /\ ticker[p] = "none"
    /\ ticker' = [ticker EXCEPT ![p] = "running"]
    /\ pc' = [pc EXCEPT ![p] = "select"]
    /\ Forget(p)
    /\ UNCHANGED <<probe, given, config, mu, goos, ctxDone, tickC>>

\* Continue as it would be were an error answered by return, not continue.
ContinueReturnOnError(p) ==
    /\ pc[p] = "ret"
    /\ ticker[p] # "none"
    /\ IF err[p] # "nil"
       THEN /\ pc' = [pc EXCEPT ![p] = "done"]
            /\ ticker' = [ticker EXCEPT ![p] = "stopped"]
       ELSE /\ pc' = [pc EXCEPT ![p] = "select"]
            /\ UNCHANGED ticker
    /\ totalMB' = [totalMB EXCEPT ![p] = 0]
    /\ usedMB' = [usedMB EXCEPT ![p] = 0]
    /\ newUsedMB' = [newUsedMB EXCEPT ![p] = 0]
    /\ usedDiff' = [usedDiff EXCEPT ![p] = 0]
    /\ err' = [err EXCEPT ![p] = "nil"]
    /\ probed' = [probed EXCEPT ![p] = <<>>]
    /\ cleanRet' = [cleanRet EXCEPT ![p] = <<>>]
    /\ nClean' = [nClean EXCEPT ![p] = 0]
    /\ logs' = [logs EXCEPT ![p] = {}]
    /\ elapsed' = [elapsed EXCEPT ![p] = 0]
    /\ UNCHANGED <<probe, given, config, mu, goos, ctxDone, tickC>>

\* Lines 78-81: a tick's call has returned; its error, if any, is logged
\* and the loop goes round.
Continue(p) ==
    /\ pc[p] = "ret"
    /\ ticker[p] # "none"
    /\ pc' = [pc EXCEPT ![p] = "select"]
    /\ Forget(p)
    /\ UNCHANGED <<probe, given, config, mu, goos, ctxDone, ticker, tickC>>

\* p has received a tick and its call of maintainDiskUsage has not
\* returned yet.
Busy(p) == pc[p] \in {"call", "probe1", "clean", "cleaning", "probe2"}

\* Tick as it would be were ticker.C unbuffered: a tick is delivered only
\* to a goroutine waiting in the select.
TickUnbuffered(p) ==
    /\ ticker[p] = "running"
    /\ tickC[p] = FALSE \/ (Busy(p) /\ elapsed[p] < MaxTicks)
    /\ tickC' = [tickC EXCEPT ![p] = IF pc[p] = "select" THEN TRUE ELSE @]
    /\ elapsed' = [elapsed EXCEPT ![p] = IF Busy(p) THEN @ + 1 ELSE @]
    /\ UNCHANGED <<probe, given, config, mu, goos, ctxDone, pc, ticker, locals>>

\* A period of the running ticker ends: a tick is put in ticker.C, whose
\* buffer holds one tick; a tick that finds the buffer full is dropped.
\* The periods that end while p is busy are counted, up to MaxTicks.
Tick(p) ==
    /\ ticker[p] = "running"
    /\ tickC[p] = FALSE \/ (Busy(p) /\ elapsed[p] < MaxTicks)
    /\ tickC' = [tickC EXCEPT ![p] = TRUE]
    /\ elapsed' = [elapsed EXCEPT ![p] = IF Busy(p) THEN @ + 1 ELSE @]
    /\ UNCHANGED <<probe, given, config, mu, goos, ctxDone, pc, ticker, locals>>

\* case <-ticker.C: the tick is received and maintainDiskUsage is called.
SelectTick(p) ==
    /\ pc[p] = "select"
    /\ tickC[p] = TRUE
    /\ tickC' = [tickC EXCEPT ![p] = FALSE]
    /\ pc' = [pc EXCEPT ![p] = "call"]
    /\ UNCHANGED <<probe, elapsed, given, config, mu, goos, ctxDone, ticker, locals>>

\* SelectDone as it would be without ticker.Stop().
SelectDoneNoStop(p) ==
    /\ pc[p] = "select"
    /\ ctxDone = TRUE
    /\ pc' = [pc EXCEPT ![p] = "done"]
    /\ UNCHANGED <<probe, elapsed, given, config, mu, goos, ctxDone, ticker, tickC, locals>>

\* SelectDone as it would be were ctx.Done() also watched while Clean runs.
SelectDonePreempt(p) ==
    /\ pc[p] \in {"select", "cleaning"}
    /\ ctxDone = TRUE
    /\ ticker' = [ticker EXCEPT ![p] = "stopped"]
    /\ pc' = [pc EXCEPT ![p] = "done"]
    /\ UNCHANGED <<probe, elapsed, given, config, mu, goos, ctxDone, tickC, locals>>

\* case <-ctx.Done(): ticker.Stop() and return.
SelectDone(p) ==
    /\ pc[p] = "select"
    /\ ctxDone = TRUE
    /\ ticker' = [ticker EXCEPT ![p] = "stopped"]
    /\ pc' = [pc EXCEPT ![p] = "done"]
    /\ UNCHANGED <<probe, elapsed, given, config, mu, goos, ctxDone, tickC, locals>>

\* The owner of ctx cancels it.
Cancel ==
    /\ ctxDone = FALSE
    /\ ctxDone' = TRUE
    /\ UNCHANGED <<probe, elapsed, given, config, mu, goos, pc, ticker, tickC, locals>>

Next ==
    \/ \E p \in Procs : PanicNilClean(p)
    \/ \E p \in Procs : ApplyDefaults(p)
    \/ \E p \in Procs : Lock(p)
    \/ \E p \in Procs : FirstProbe(p)
    \/ \E p \in Procs : CleanCall(p)
    \/ \E p \in Procs : CleanReturn(p)
    \/ \E p \in Procs : SecondProbe(p)
    \/ \E p \in Procs : StartTicker(p)
    \/ \E p \in Procs : Continue(p)
    \/ \E p \in Procs : Tick(p)
    \/ \E p \in Procs : SelectTick(p)
    \/ \E p \in Procs : SelectDone(p)
    \/ Cancel

Spec == Init /\ [][Next]_vars

SpecConc == InitConc /\ [][Next]_vars

NextProbe == DiskUsageCall

SpecProbe == InitProbe /\ [][NextProbe]_vars

\* A goroutine that can take a step of Maintain or of maintainDiskUsage
\* takes it; a goroutine waiting for the mutex gets it if it is free again
\* and again; every call of Clean returns; and a select that finds
\* ctx.Done() ready again and again takes that case (Go picks among the
\* ready cases at random).  Nothing obliges a tick or a cancellation.
Fairness ==
    \A p \in Procs :
        /\ WF_vars(PanicNilClean(p))
        /\ WF_vars(ApplyDefaults(p))
        /\ SF_vars(Lock(p))
        /\ WF_vars(FirstProbe(p))
        /\ WF_vars(CleanCall(p))
        /\ WF_vars(CleanReturn(p))
        /\ WF_vars(SecondProbe(p))
        /\ WF_vars(StartTicker(p))
        /\ WF_vars(Continue(p))
        /\ WF_vars(SelectTick(p))
        /\ SF_vars(SelectDone(p))

FairSpec == Spec /\ Fairness

TypeOK ==
    /\ Volume \in Volumes
    /\ mu \in BOOLEAN
    /\ ctxDone \in BOOLEAN
    /\ pc \in [Procs -> {"absent", "start", "panicked", "call", "probe1", "clean",
                         "cleaning", "probe2", "ret", "select", "done"}]
    /\ ticker \in [Procs -> {"none", "running", "stopped"}]
    /\ tickC \in [Procs -> BOOLEAN]
    /\ err \in [Procs -> {"nil", "ENOENT", "clean: EIO"}]
    /\ \A p \in Procs : Len(probed[p]) <= 2 /\ Len(cleanRet[p]) <= 1

(***************************************************************************)
(* Properties.                                                             *)
(***************************************************************************)

\* p is inside maintainDiskUsage, between Lock and the deferred Unlock.
InCycle(p) == pc[p] \in {"probe1", "clean", "cleaning", "probe2"}

\* p's call of maintainDiskUsage has got past its first probe.
PastFirstProbe(p) == pc[p] \in {"clean", "cleaning", "probe2", "ret"}

\* The first probe of p's call succeeded.
FirstProbeOk(p) == Len(probed[p]) >= 1 /\ probed[p][1] = "ok"

\* usedMB / totalMB, as a quotient of numbers, is less than Threshold.
UsedRatioLess(p) ==
    totalMB[p] > 0 /\ usedMB[p] * Threshold[2] < Threshold[1] * totalMB[p]

\* usedMB / totalMB, as a quotient of numbers, is at least Threshold.
UsedRatioAtLeast(p) ==
    totalMB[p] > 0 /\ usedMB[p] * Threshold[2] >= Threshold[1] * totalMB[p]

\* C1: with several goroutines running Maintain on one Maintainer, at most
\* one of them is between Lock and Unlock of maintainDiskUsage, and so at
\* most one call of Clean is in progress, whatever ticks fire meanwhile.
C1_MutualExclusion ==
    /\ Cardinality({p \in Procs : InCycle(p)}) <= 1
    /\ Cardinality({p \in Procs : pc[p] = "cleaning"}) <= 1

\* A tick fired for p while p is inside a slow Clean, and another
\* goroutine's cycle is waiting for the mutex.
C1_Witness ==
    \E p, q \in Procs :
        /\ p # q
        /\ pc[p] = "cleaning"
        /\ tickC[p] = TRUE
        /\ pc[q] = "call"
        /\ mu = TRUE

\* C2: a call whose first probe succeeds with usedRatio < Threshold returns
\* nil at once: Clean is not called and no second probe is made.
C2_BelowThresholdNoClean ==
    \A p \in Procs :
        (PastFirstProbe(p) /\ FirstProbeOk(p) /\ UsedRatioLess(p)) =>
            /\ pc[p] = "ret"
            /\ err[p] = "nil"
            /\ nClean[p] = 0
            /\ cleanRet[p] = <<>>
            /\ Len(probed[p]) = 1

\* A call has returned after a first probe of 80 MB used of 100 MB.
C2_Witness ==
    \E p \in Procs :
        /\ pc[p] = "ret"
        /\ FirstProbeOk(p)
        /\ totalMB[p] = 100
        /\ usedMB[p] = 80
        /\ Threshold = <<9, 10>>
        /\ err[p] = "nil"

\* C3: a call whose first probe succeeds with usedRatio >= Threshold calls
\* Clean exactly once, and when that Clean succeeds it makes exactly one
\* further probe; no call of maintainDiskUsage calls Clean twice.
C3_CleanExactlyOnce ==
    \A p \in Procs :
        /\ nClean[p] <= 1
        /\ (PastFirstProbe(p) /\ FirstProbeOk(p) /\ UsedRatioAtLeast(p)) =>
              /\ pc[p] = "clean" => nClean[p] = 0
              /\ pc[p] \in {"cleaning", "probe2", "ret"} => nClean[p] = 1
              /\ pc[p] = "probe2" => Len(probed[p]) = 1
              /\ (pc[p] = "ret" /\ cleanRet[p] = <<"nil">>) => Len(probed[p]) = 2
              /\ (pc[p] = "ret" /\ cleanRet[p] # <<"nil">>) => Len(probed[p]) = 1

\* A call has returned after a first probe of 95 MB used of 100 MB, one
\* successful Clean and a second probe.
C3_Witness ==
    \E p \in Procs :
        /\ pc[p] = "ret"
        /\ FirstProbeOk(p)
        /\ totalMB[p] = 100
        /\ usedMB[p] = 95
        /\ nClean[p] = 1
        /\ cleanRet[p] = <<"nil">>
        /\ Len(probed[p]) = 2

\* C4: once ctx is cancelled, a Maintain that did not fault returns with
\* its ticker stopped, given that every Clean returns and that the select
\* does not pass the ready ctx.Done() over for ever.
C4_CancelLeadsToReturn ==
    \A p \in Procs :
        (ctxDone /\ Clean # "nil" /\ pc[p] # "absent")
            ~> (pc[p] = "done" /\ ticker[p] = "stopped")

\* Maintain has returned on cancellation with its ticker stopped, leaving
\* behind a tick that was ready at the same time.
C4_Witness ==
    \E p \in Procs :
        /\ ctxDone
        /\ pc[p] = "done"
        /\ ticker[p] = "stopped"
        /\ tickC[p] = TRUE

\* C5: cancellation does not pre-empt a cycle.  A goroutine inside
\* maintainDiskUsage does not return from Maintain nor stop its ticker: it
\* stays in the call or returns from it with the mutex unlocked; Maintain
\* returns only from the select, with ctx cancelled; and as long as a
\* goroutine stays inside Clean no goroutine starts a cycle.
C5_NoPreemption ==
    [][\A p \in Procs :
          /\ InCycle(p) =>
                /\ pc'[p] # "done"
                /\ ticker'[p] = ticker[p]
                /\ \/ pc'[p] \in {"probe1", "clean", "cleaning", "probe2"}
                   \/ pc'[p] = "ret" /\ mu' = FALSE
          /\ (pc'[p] = "done" /\ pc[p] # "done") =>
                (pc[p] = "select" /\ ctxDone)
          /\ (pc[p] = "cleaning" /\ pc'[p] = "cleaning") =>
                \A q \in Procs : pc'[q] = "probe1" => pc[q] = "probe1"
      ]_vars

\* ctx is cancelled while a goroutine whose ticker runs is inside Clean.
C5_Witness ==
    \E p \in Procs :
        /\ ctxDone
        /\ pc[p] = "cleaning"
        /\ ticker[p] = "running"

\* C6: a failing cycle does not end maintenance.  Maintain has returned
\* only if ctx is cancelled; after a call that returned an error, initial
\* or not, the goroutine is next in the select with its ticker running;
\* and in the select a buffered tick can be received, starting a cycle.
C6_FailureDoesNotStop ==
    /\ [](\A p \in Procs : pc[p] = "done" => ctxDone)
    /\ [](\A p \in Procs :
             (pc[p] = "select" /\ tickC[p]) => ENABLED SelectTick(p))
    /\ [][\A p \in Procs :
             (pc[p] = "ret" /\ err[p] # "nil" /\ pc'[p] # "ret") =>
                 (pc'[p] = "select" /\ ticker'[p] = "running")
         ]_vars

\* A tick's call has returned an error with ctx not cancelled, and the
\* next tick is already buffered.
C6_Witness ==
    \E p \in Procs :
        /\ pc[p] = "ret"
        /\ err[p] # "nil"
        /\ ticker[p] = "running"
        /\ tickC[p] = TRUE
        /\ ~ctxDone

\* C7: with Clean nil, Maintain panics at once: the fields keep the values
\* they were given, no probe and no Clean is made, the mutex is never
\* locked and no ticker exists.
C7_NilCleanPanics ==
    given.Clean = "nil" =>
        /\ Volume = given.Volume
        /\ Threshold = given.Threshold
        /\ CheckInterval = given.CheckInterval
        /\ Clean = "nil"
        /\ mu = FALSE
        /\ \A p \in Procs :
              /\ pc[p] \in {"absent", "start", "panicked"}
              /\ ticker[p] = "none"
              /\ tickC[p] = FALSE
              /\ probed[p] = <<>>
              /\ nClean[p] = 0

\* Maintain has panicked on a Maintainer none of whose fields was set.
C7_Witness ==
    /\ given.Clean = "nil"
    /\ given.Volume = ""
    /\ given.Threshold = <<0, 1>>
    /\ given.CheckInterval = 0
    /\ pc[1] = "panicked"

\* t lies in the open interval (0, 1).
InOpenUnitInterval(t) == 0 < t[1] /\ t[1] < t[2]

C9_CleanErrorReturned ==
    \A p \in Procs :
        (Len(cleanRet[p]) >= 1 /\ cleanRet[p][1] # "nil") =>
            /\ pc[p] = "ret"
            /\ err[p] = "clean: " \o cleanRet[p][1]
            /\ Len(probed[p]) = 1
            /\ "cleaned" \notin logs[p]
            /\ mu = FALSE

\* A call has returned after its Clean failed.
C9_Witness ==
    \E p \in Procs :
        /\ pc[p] = "ret"
        /\ cleanRet[p] = <<"EIO">>
        /\ nClean[p] = 1

\* C10: when Clean succeeds and the second probe fails, the call returns
\* the probe's error without the "disk space cleaned" report; Clean was
\* called once and the mutex is unlocked.
C10_SecondProbeError ==
    \A p \in Procs :
        (Len(probed[p]) = 2 /\ probed[p][2] # "ok") =>
            /\ pc[p] = "ret"
            /\ cleanRet[p] = <<"nil">>
            /\ err[p] = probed[p][2]
            /\ "cleaned" \notin logs[p]
            /\ usedDiff[p] = 0
            /\ nClean[p] = 1
            /\ mu = FALSE

\* A call has returned after a successful Clean and a failed second probe.
C10_Witness ==
    \E p \in Procs :
        /\ pc[p] = "ret"
        /\ cleanRet[p] = <<"nil">>
        /\ probed[p] = <<"ok", "ENOENT">>

\* C11: Maintain makes one whole call of maintainDiskUsage before it
\* creates the ticker and before it looks at ctx: while no ticker exists
\* the goroutine is before or inside that initial call, which starts from
\* the default assignments and can lock the mutex even with ctx cancelled;
\* the ticker is created only when that call has returned, and nothing
\* else follows its return; Maintain returns only from the select; and
\* afterwards a call starts exactly when a tick is taken out of ticker.C.
C11_InitialCycleThenTicks ==
    /\ [](\A p \in Procs :
             /\ ticker[p] = "none" =>
                   pc[p] \in {"absent", "start", "panicked", "call", "probe1",
                              "clean", "cleaning", "probe2", "ret"}
             /\ pc[p] \in {"select", "done"} => ticker[p] # "none"
             /\ (pc[p] = "call" /\ ticker[p] = "none" /\ ~mu) => ENABLED Lock(p))
    /\ [][\A p \in Procs :
             /\ (pc'[p] = "call" /\ pc[p] # "call") =>
                   \/ pc[p] = "start" /\ ticker[p] = "none"
                   \/ /\ pc[p] = "select"
                      /\ ticker[p] = "running"
                      /\ tickC[p] = TRUE
                      /\ tickC'[p] = FALSE
             /\ pc[p] = "start" => pc'[p] \in {"start", "panicked", "call"}
             /\ ticker'[p] # ticker[p] =>
                   \/ ticker[p] = "none" /\ pc[p] = "ret" /\ pc'[p] = "select"
                   \/ ticker[p] = "running" /\ pc[p] = "select" /\ pc'[p] = "done"
             /\ (pc[p] = "ret" /\ ticker[p] = "none" /\ pc'[p] # "ret") =>
                   (pc'[p] = "select" /\ ticker'[p] = "running")
             /\ (tickC[p] = TRUE /\ tickC'[p] = FALSE) =>
                   (pc[p] = "select" /\ pc'[p] = "call")
         ]_vars

\* The initial call is inside Clean, no ticker exists yet, and ctx is
\* already cancelled.
C11_Witness ==
    \E p \in Procs :
        /\ ctxDone
        /\ ticker[p] = "none"
        /\ pc[p] = "cleaning"

\* C12: for every answer of Statfs, diskUsage returns all = Blocks * Bsize,
\* available = Bavail * Bsize, free = Bfree * Bsize, and used = all - free,
\* except on darwin where used = all - available (in the arithmetic of the
\* unsigned type); when Statfs fails it returns the error and the zero
\* diskStatus.
C12_DiskUsageFormulas ==
    probeDisk # NoResult =>
        IF probeFs.errno = "ok"
        THEN /\ probeDisk.err = "nil"
             /\ probeDisk.du.all = (probeFs.Blocks * probeFs.Bsize) % Word
             /\ probeDisk.du.available = (probeFs.Bavail * probeFs.Bsize) % Word
             /\ probeDisk.du.free = (probeFs.Bfree * probeFs.Bsize) % Word
             /\ goos = "darwin" =>
                   probeDisk.du.used =
                       (probeDisk.du.all - probeDisk.du.available) % Word
             /\ goos # "darwin" =>
                   probeDisk.du.used =
                       (probeDisk.du.all - probeDisk.du.free) % Word
        ELSE /\ probeDisk.err = probeFs.errno
             /\ probeDisk.du.all = 0
             /\ probeDisk.du.available = 0
             /\ probeDisk.du.free = 0
             /\ probeDisk.du.used = 0

\* diskUsage has returned on darwin for a volume whose available blocks
\* are fewer than its free blocks.
C12_Witness ==
    /\ probeDisk # NoResult
    /\ probeDisk.err = "nil"
    /\ goos = "darwin"
    /\ probeFs.Blocks = 4
    /\ probeFs.Bfree = 2
    /\ probeFs.Bavail = 1
    /\ probeDisk.du.used = 3 * probeFs.Bsize

\* C13: when the first probe fails, the call returns the probe's error and
\* does nothing else: no Clean, no second probe, no warning and no
\* "disk space cleaned" report, and the mutex is unlocked.
C13_FirstProbeError ==
    \A p \in Procs :
        (Len(probed[p]) >= 1 /\ probed[p][1] # "ok") =>
            /\ pc[p] = "ret"
            /\ err[p] = probed[p][1]
            /\ Len(probed[p]) = 1
            /\ nClean[p] = 0
            /\ cleanRet[p] = <<>>
            /\ logs[p] = {}
            /\ mu = FALSE

\* A call has returned after its first probe failed.
C13_Witness ==
    \E p \in Procs :
        /\ pc[p] = "ret"
        /\ probed[p] = <<"ENOENT">>
        /\ err[p] = "ENOENT"

\* C14: the mutex is unlocked on every way out of maintainDiskUsage: it is
\* locked exactly when one goroutine is between the Lock and the return of
\* a call, so no goroutine waits for a mutex that a returned call left
\* locked.
C14_LockHeldIffInCycle ==
    /\ mu = TRUE <=> Cardinality({p \in Procs : InCycle(p)}) = 1
    /\ (\E p \in Procs : pc[p] = "call") /\ (\A q \in Procs : ~InCycle(q))
          => \E p \in Procs : ENABLED Lock(p)

\* One goroutine's call has returned an error and another goroutine has
\* locked the mutex after it.
C14_Witness ==
    \E p, q \in Procs :
        /\ p # q
        /\ pc[p] = "ret"
        /\ err[p] # "nil"
        /\ pc[q] = "probe1"
        /\ mu = TRUE

\* C15: a slow call delays ticks but neither skips them all nor queues
\* them.  While a goroutine is busy with a call that a tick started, and
\* when that call has returned, a tick is buffered exactly if a period has
\* ended since the call started, however many have; receiving the tick
\* empties the buffer and starts one call, so the periods that ended
\* during a call start one call, not several; and a buffered tick can be
\* received in the select.
C15_OneCatchUpCycle ==
    /\ [](\A p \in Procs :
             /\ (Busy(p) /\ ticker[p] = "running") =>
                   (tickC[p] = TRUE <=> elapsed[p] >= 1)
             /\ (pc[p] = "ret" /\ elapsed[p] >= 1) => tickC[p] = TRUE
             /\ (pc[p] = "select" /\ tickC[p]) => ENABLED SelectTick(p))
    /\ [][\A p \in Procs :
             (pc[p] = "select" /\ pc'[p] = "call") =>
                 (tickC[p] = TRUE /\ tickC'[p] = FALSE /\ elapsed'[p] = 0)
         ]_vars

\* Two periods ended while one call was inside Clean, and the call has
\* returned with one tick buffered.
C15_Witness ==
    \E p \in Procs :
        /\ pc[p] = "ret"
        /\ nClean[p] = 1
        /\ elapsed[p] >= 2
        /\ tickC[p] = TRUE

\* p's call has decided to run Clean.
CleanDecided(p) == pc[p] \in {"clean", "cleaning", "probe2"} \/ nClean[p] >= 1

\* C16: a call whose first probe succeeded runs Clean exactly if
\* usedMB / totalMB >= Threshold, for the whole megabytes usedMB and
\* totalMB of the probe.
C16_CleanIffRatioAtLeast ==
    \A p \in Procs :
        (PastFirstProbe(p) /\ FirstProbeOk(p)) =>
            (CleanDecided(p) <=> UsedRatioAtLeast(p))

\* C17: every diskStatus a successful diskUsage returns has used <= all.
C17_UsedAtMostTotal ==
    (probeDisk # NoResult /\ probeDisk.err = "nil") =>
        probeDisk.du.used <= probeDisk.du.all

\* C18: once a goroutine is past the default assignments, no step changes
\* Volume, CheckInterval, Threshold or Clean.
C18_ConfigReadOnly ==
    [][(\E p \in Procs : pc[p] \notin {"absent", "start", "panicked"}) =>
           /\ Volume' = Volume
           /\ CheckInterval' = CheckInterval
           /\ Threshold' = Threshold
           /\ Clean' = Clean
      ]_vars

\* A tick's call has failed on a Maintainer that still has the valid
\* fields it was given.
C18_Witness ==
    \E p \in Procs :
        /\ pc[p] = "ret"
        /\ ticker[p] = "running"
        /\ err[p] # "nil"
        /\ given.Volume = "/data"
        /\ given.Threshold = <<1, 2>>
        /\ given.CheckInterval = 5
        /\ Volume = "/data"
        /\ Threshold = <<1, 2>>
        /\ CheckInterval = 5

\* C19: the freed_mb of a "disk space cleaned" report is usedMB - newUsedMB
\* as a number, and is at most usedMB.
C19_FreedDoesNotWrap ==
    \A p \in Procs :
        "cleaned" \in logs[p] =>
            /\ usedDiff[p] = usedMB[p] - newUsedMB[p]
            /\ usedDiff[p] <= usedMB[p]

\* C20: a call runs Clean only if its first probe found at least one whole
\* megabyte used.
C20_CleanOnlyIfUsed ==
    \A p \in Procs : CleanDecided(p) => usedMB[p] >= 1

=============================================================================
